---- MODULE Spec2Model ----
(***************************************************************************)
(* Bounded multi-producer/multi-consumer queue (src/src/lib.rs).           *)
(*                                                                         *)
(* The queue is a ring of nodes, each guarded by an atomic ticket, and two *)
(* atomic indices.  Every atomic load, store and compare-and-swap of       *)
(* try_enqueue / try_dequeue, and every access of a node's unsynchronised  *)
(* data cell, is one step of the calling thread, so that threads           *)
(* interleave between any two of them.  Atomics are modelled as            *)
(* sequentially consistent; counters are unbounded naturals (the runs      *)
(* stay far below usize::MAX).                                             *)
(*                                                                         *)
(* Three harnesses drive the queue: "stress" (tests::multiple_threads cut  *)
(* down: THREAD_COUNT producers and THREAD_COUNT consumers), "solo" (one   *)
(* thread making every call), and the stress harness under a scheduler     *)
(* that may leave one thread running alone (SpecAlone) or is fair          *)
(* (SpecLive).  tests::ping_pong, with its two queues, is a harness of     *)
(* its own (SpecPingPong), built on the same branch conditions.            *)
(* Definitions named ...Broken, ...AllZero, ...PlusLen, ...MaskOnly,       *)
(* ...Same and ...FetchAdd are faulty variants of the definition that      *)
(* follows them, used to show that a property depends on the code it is    *)
(* about.                                                                  *)
(***************************************************************************)
EXTENDS Integers, Sequences, FiniteSets, TLC

\* ------------------------------------------------------------------ bounds
\* Largest bound handed to Queue::new; every bound in 0..MaxBound is tried.
MaxBound == 4
\* Messages moved through the queue in the multi-threaded harness
\* (MESSAGE_COUNT of the tests, cut down).
StressMessages == 3
\* Largest bound the multi-threaded harness hands to Queue::new
\* (QUEUE_SIZE of the tests, cut down).
StressBound == 2
\* Messages of the harness in which the scheduler leaves one thread running
\* alone.
AloneMessages == 3
\* Values the single-threaded harness may enqueue.
SoloMessages == 5
\* Number of consecutive own steps after which a thread running alone in a
\* try_enqueue / try_dequeue call counts as not having returned.
SoloBound == 10

\* Messages of the harness whose threads are scheduled fairly.
LiveMessages == 3
\* Iterations of tests::ping_pong (MESSAGE_COUNT of the tests, cut down).
PingMessages == 3

\* --------------------------------------------------------- program constants
\* tests::THREAD_COUNT: producer threads, and consumer threads, of the
\* multiple_threads harness.
THREAD_COUNT == 2

Producers == 1..THREAD_COUNT
Consumers == (THREAD_COUNT + 1)..(2 * THREAD_COUNT)
Threads == Producers \cup Consumers

\* Option<T>: None is the empty tuple, Some(v) the one-element tuple.
None == <<>>
Some(v) == <<v>>

\* ------------------------------------------------------------ pure helpers
RECURSIVE BitAnd(_, _)
\* usize `&`, bit by bit.
BitAnd(a, b) ==
    IF a = 0 \/ b = 0 THEN 0
    ELSE (IF a % 2 = 1 /\ b % 2 = 1 THEN 1 ELSE 0) + 2 * BitAnd(a \div 2, b \div 2)

\* Queue::new, first assertion: assert!(bound >= 2).
\* (Faulty variant: off by one.)
BoundAtLeastTwoBroken(bound) == bound >= 1
BoundAtLeastTwo(bound) == bound >= 2

\* Queue::new, second assertion: assert_eq!(bound & (bound - 1), 0).
\* Evaluated only after the first assertion passed, so bound - 1 >= 1.
BoundPowerOfTwo(bound) == BitAnd(bound, bound - 1) = 0

\* Queue::new runs to completion exactly when both assertions pass;
\* otherwise it panics and no Queue value exists.
NewPanics(bound) == ~BoundAtLeastTwo(bound) \/ ~BoundPowerOfTwo(bound)

\* Node::new(ticket).
Node(t) == [ticket |-> t, data |-> None]

\* The node array built by Queue::new: node i carries ticket i.
\* (Faulty variant: every node gets ticket 0.)
NewNodesAllZero(bound) == [i \in 0..(bound - 1) |-> Node(0)]
NewNodes(bound) == [i \in 0..(bound - 1) |-> Node(i)]

\* mask: bound - 1.
NewMask(bound) == bound - 1

\* &self.nodes[index & self.mask]
NodeOf(index, m) == BitAnd(index, m)

\* try_enqueue: `ticket == index` -- the node is free for position index.
\* (Faulty variant: an older ticket counts as free too.)
EnqTicketFreeBroken(ticket, index) == ticket <= index
EnqTicketFree(ticket, index) == ticket = index

\* try_enqueue: `ticket < index` -- the node still holds an older position.
EnqTicketFull(ticket, index) == ticket < index

\* try_dequeue: `ticket == index + 1` -- position index is published.
\* (Faulty variant: the + 1 is missing.)
DeqTicketReadyBroken(ticket, index) == ticket = index
DeqTicketReady(ticket, index) == ticket = index + 1

\* try_dequeue: `ticket < index + 1` -- nothing published at position index.
DeqTicketEmpty(ticket, index) == ticket < index + 1

\* compare_and_swap(index, index + 1): succeeds iff the returned (current)
\* value equals the expected one.
\* (Faulty variant: the result of the CAS is ignored.)
CasWinsBroken(current, expected) == TRUE
CasWins(current, expected) == current = expected

\* node.ticket.store(index + 1): the ticket that publishes position index.
\* (Faulty variant: the + 1 is missing.)
PublishedTicketSame(index) == index
PublishedTicket(index) == index + 1

\* node.ticket.store(index + self.mask + 1): the ticket that frees the node
\* for the next round.
\* (Faulty variants: the length instead of the mask; the + 1 missing.)
FreedTicketPlusLen(index, m) == index + (m + 1) + 1
FreedTicketMaskOnly(index, m) == index + m
FreedTicket(index, m) == index + m + 1

\* ------------------------------------------------------------------- state
VARIABLES
    bound,          \* the argument of Queue::new
    harness,        \* "stress": producer and consumer threads; "solo": one thread
    messages,       \* how many distinct values 1..messages the harness enqueues
    split,          \* <<k, j>>: values given to thread 1, dequeues asked of the
                    \* first consumer
    queue,          \* "unborn" before Queue::new, then "live" or "panicked"
    nodes,          \* Queue.nodes: node number -> [ticket, data]
    mask,           \* Queue.mask
    enqueue_index,  \* Queue.enqueue_index
    dequeue_index,  \* Queue.dequeue_index
    pc,             \* per thread: the statement it executes next
    call,           \* per thread: the public operation it is (or was last) in
    item,           \* per thread: try_enqueue's `item` / enqueue's `value`
    index,          \* per thread: the local `index`
    data,           \* per thread: try_dequeue's local `data`
    ret,            \* per thread: what its last completed call returned
    todo,           \* per thread: values it still has to enqueue (in its hand)
    quota,          \* per thread: values it still has to dequeue
    got,            \* per thread: values its dequeue calls returned, in order
    claimed,        \* history: <<position, value>> of every won enqueue CAS
    taken,          \* history: <<position, Option>> of every payload take
    hist,           \* history, solo harness: the last three completed calls,
                    \* latest first
    alone,          \* 0, or the one thread the scheduler still runs
    aloneSteps,     \* steps that thread has taken since it runs alone
    pingpong        \* tests::ping_pong: its two queues and its two threads

inputs == <<bound, harness, messages, split>>
shared == <<nodes, mask, enqueue_index, dequeue_index>>
locals == <<pc, call, item, index, data, ret>>
work == <<todo, quota, got>>
ghost == <<claimed, taken, hist>>
sched == <<alone, aloneSteps>>
vars == <<inputs, queue, shared, locals, work, ghost, sched, pingpong>>

\* 1..n as a sequence, shifted by `from`.
Range(from, n) == [i \in 1..n |-> from + i]

\* The ways the stress harness splits n messages between its two threads of
\* a kind: everything to the first, or the larger half to the first.
Splits(n) == {n, (n + 1) \div 2}

NoCall == [op |-> "none", arg |-> None, len0 |-> 0]

\* The harness is not tests::ping_pong.
NoPingPong == <<>>

\* The part of the initial state that does not depend on the harness.
InitCommon ==
    /\ bound \in 0..MaxBound
    /\ queue = "unborn"
    /\ nodes = <<>>
    /\ mask = 0
    /\ enqueue_index = 0
    /\ dequeue_index = 0
    /\ pc = [t \in Threads |-> "idle"]
    /\ call = [t \in Threads |-> NoCall]
    /\ item = [t \in Threads |-> None]
    /\ index = [t \in Threads |-> 0]
    /\ data = [t \in Threads |-> None]
    /\ ret = [t \in Threads |-> <<"NoReturn">>]
    /\ got = [t \in Threads |-> <<>>]
    /\ claimed = {}
    /\ taken = {}
    /\ hist = <<>>
    /\ alone = 0
    /\ aloneSteps = 0

\* tests::multiple_threads, cut down: THREAD_COUNT producers enqueue n
\* distinct values between them, THREAD_COUNT consumers dequeue n values.
InitStress(n) ==
    /\ harness = "stress"
    /\ bound <= StressBound
    /\ messages = n
    /\ split \in Splits(n) \X Splits(n)
    /\ todo = [t \in Threads |->
                 IF t = 1 THEN Range(0, split[1])
                 ELSE IF t = 2 THEN Range(split[1], n - split[1])
                 ELSE <<>>]
    /\ quota = [t \in Threads |->
                  IF t = THREAD_COUNT + 1 THEN split[2]
                  ELSE IF t = THREAD_COUNT + 2 THEN n - split[2]
                  ELSE 0]
    /\ pingpong = NoPingPong

\* Single-threaded use: thread 1 alone makes every call.
InitSolo ==
    /\ harness = "solo"
    /\ messages = SoloMessages
    /\ split = <<SoloMessages, SoloMessages>>
    /\ todo = [t \in Threads |-> IF t = 1 THEN Range(0, SoloMessages) ELSE <<>>]
    /\ quota = [t \in Threads |-> IF t = 1 THEN SoloMessages ELSE 0]
    /\ pingpong = NoPingPong

Init == InitCommon /\ (InitStress(StressMessages) \/ InitSolo)

\* ------------------------------------------------------------- Queue::new
New ==
    /\ queue = "unborn"
    /\ IF NewPanics(bound)
       THEN /\ queue' = "panicked"
            /\ UNCHANGED shared
       ELSE /\ queue' = "live"
            /\ nodes' = NewNodes(bound)
            /\ mask' = NewMask(bound)
            /\ enqueue_index' = 0
            /\ dequeue_index' = 0
    /\ UNCHANGED <<inputs, pingpong, locals, work, ghost, sched>>

\* --------------------------------------------------------------- scheduler
\* Thread t may take a step: the queue exists and the scheduler has not
\* paused t.  A thread running alone is followed for SoloBound + 1 steps.
Runs(t) ==
    /\ queue = "live"
    /\ alone \in {0, t}
    /\ alone = t => aloneSteps <= SoloBound
    /\ aloneSteps' = IF alone = t THEN aloneSteps + 1 ELSE aloneSteps
    /\ UNCHANGED alone

\* The record of a completed call, kept in the solo harness only.
Completed(t, r) ==
    IF harness = "solo"
    THEN <<[op |-> call[t].op, arg |-> call[t].arg, len0 |-> call[t].len0, ret |-> r]>>
         \o SubSeq(hist, 1, IF Len(hist) > 2 THEN 2 ELSE Len(hist))
    ELSE hist

\* Values stored in the queue as the caller sees them when it is alone.
Len0 == IF harness = "solo" THEN enqueue_index - dequeue_index ELSE 0

\* ------------------------------------------------------------ call entries
BeginEnqueue(t, op) ==
    /\ Runs(t)
    /\ alone = 0
    /\ pc[t] = "idle"
    /\ todo[t] # <<>>
    /\ call' = [call EXCEPT ![t] = [op |-> op, arg |-> Some(Head(todo[t])), len0 |-> Len0]]
    /\ item' = [item EXCEPT ![t] = Some(Head(todo[t]))]
    /\ todo' = [todo EXCEPT ![t] = Tail(todo[t])]
    /\ pc' = [pc EXCEPT ![t] = "enq_load_index"]
    /\ ret' = [ret EXCEPT ![t] = <<"NoReturn">>]
    /\ UNCHANGED <<inputs, pingpong, queue, shared, index, data, quota, got, ghost>>

BeginDequeue(t, op) ==
    /\ Runs(t)
    /\ alone = 0
    /\ pc[t] = "idle"
    /\ quota[t] > 0
    /\ call' = [call EXCEPT ![t] = [op |-> op, arg |-> None, len0 |-> Len0]]
    /\ pc' = [pc EXCEPT ![t] = "deq_load_index"]
    /\ ret' = [ret EXCEPT ![t] = <<"NoReturn">>]
    /\ UNCHANGED <<inputs, pingpong, queue, shared, item, index, data, work, ghost>>

\* A caller invokes queue.try_enqueue(v).
CallTryEnqueue(t) == BeginEnqueue(t, "try_enqueue")
\* A caller invokes queue.enqueue(v): `let mut value = item; loop { ... }`.
CallEnqueue(t) == BeginEnqueue(t, "enqueue")
\* A caller invokes queue.try_dequeue().
CallTryDequeue(t) == BeginDequeue(t, "try_dequeue")
\* A caller invokes queue.dequeue().
CallDequeue(t) == BeginDequeue(t, "dequeue")

\* ----------------------------------------------------------- control flow
\* Thread t goes on to statement `label` of the call it is in.
Goto(t, label) ==
    /\ pc' = [pc EXCEPT ![t] = label]
    /\ UNCHANGED <<call, index, ret, hist>>

\* A blocking wrapper's loop calls the try_ operation again: the locals of
\* the call that just ended are gone.
Again(t, label) ==
    /\ pc' = [pc EXCEPT ![t] = label]
    /\ index' = [index EXCEPT ![t] = 0]
    /\ UNCHANGED <<call, ret, hist>>

\* Thread t's public call returns r to its caller.
Return(t, r) ==
    /\ pc' = [pc EXCEPT ![t] = "idle"]
    /\ index' = [index EXCEPT ![t] = 0]
    /\ call' = [call EXCEPT ![t] = NoCall]
    /\ ret' = [ret EXCEPT ![t] = r]
    /\ hist' = Completed(t, r)

\* ------------------------------------------------------------ try_enqueue
\* let mut index = self.enqueue_index.load(Relaxed);
EnqLoadIndex(t) ==
    /\ Runs(t)
    /\ pc[t] = "enq_load_index"
    /\ index' = [index EXCEPT ![t] = enqueue_index]
    /\ pc' = [pc EXCEPT ![t] = "enq_load_ticket"]
    /\ UNCHANGED <<inputs, pingpong, queue, shared, call, item, data, ret, work, ghost>>

\* let ticket = node.ticket.load(Acquire); and the three-way branch on it.
\* `ticket < index` returns Some(item): try_enqueue hands the item back to
\* its caller; inside enqueue the loop takes it (`value = v`) and calls
\* try_enqueue again.
EnqLoadTicket(t) ==
    /\ Runs(t)
    /\ pc[t] = "enq_load_ticket"
    /\ LET ticket == nodes[NodeOf(index[t], mask)].ticket IN
       IF EnqTicketFree(ticket, index[t])
       THEN /\ Goto(t, "enq_cas")
            /\ UNCHANGED <<item, todo>>
       ELSE IF EnqTicketFull(ticket, index[t])
       THEN IF call[t].op = "try_enqueue"
            THEN /\ Return(t, <<"Rejected">> \o item[t])
                 /\ todo' = [todo EXCEPT ![t] = item[t] \o todo[t]]
                 /\ item' = [item EXCEPT ![t] = None]
            ELSE /\ Again(t, "enq_load_index")
                 /\ UNCHANGED <<item, todo>>
       ELSE /\ Goto(t, "enq_reload")
            /\ UNCHANGED <<item, todo>>
    /\ UNCHANGED <<inputs, pingpong, queue, shared, data, quota, got, claimed, taken>>

\* (Faulty variant of the statement below: fetch_add in the place of
\* compare_and_swap, so that a thread that loses still moves the cursor.)
EnqCasFetchAdd(t) ==
    /\ Runs(t)
    /\ pc[t] = "enq_cas"
    /\ enqueue_index' = enqueue_index + 1
    /\ IF CasWins(enqueue_index, index[t])
       THEN /\ claimed' = claimed \cup {<<index[t], item[t]>>}
            /\ Goto(t, "enq_write")
       ELSE /\ Goto(t, "enq_load_ticket")
            /\ UNCHANGED claimed
    /\ UNCHANGED <<inputs, pingpong, queue, nodes, mask, dequeue_index, item, data,
                   work, taken>>

\* if index == self.enqueue_index.compare_and_swap(index, index + 1, Relaxed)
\* A lost CAS falls out of the `if` and goes round the loop with the same
\* index.
EnqCas(t) ==
    /\ Runs(t)
    /\ pc[t] = "enq_cas"
    /\ IF CasWins(enqueue_index, index[t])
       THEN /\ enqueue_index' = index[t] + 1
            /\ claimed' = claimed \cup {<<index[t], item[t]>>}
            /\ Goto(t, "enq_write")
       ELSE /\ Goto(t, "enq_load_ticket")
            /\ UNCHANGED <<enqueue_index, claimed>>
    /\ UNCHANGED <<inputs, pingpong, queue, nodes, mask, dequeue_index, item, data, work, taken>>

\* *node.data.get() = Some(item);
EnqWrite(t) ==
    /\ Runs(t)
    /\ pc[t] = "enq_write"
    /\ nodes' = [nodes EXCEPT ![NodeOf(index[t], mask)].data = item[t]]
    /\ item' = [item EXCEPT ![t] = None]
    /\ Goto(t, "enq_store")
    /\ UNCHANGED <<inputs, pingpong, queue, mask, enqueue_index, dequeue_index, data, work,
                   claimed, taken>>

\* node.ticket.store(index + 1, Release); return None;
EnqStore(t) ==
    /\ Runs(t)
    /\ pc[t] = "enq_store"
    /\ nodes' = [nodes EXCEPT ![NodeOf(index[t], mask)].ticket = PublishedTicket(index[t])]
    /\ Return(t, <<"Accepted">>)
    /\ UNCHANGED <<inputs, pingpong, queue, mask, enqueue_index, dequeue_index, item, data,
                   work, claimed, taken>>

\* else { index = self.enqueue_index.load(Relaxed); }
EnqReload(t) ==
    /\ Runs(t)
    /\ pc[t] = "enq_reload"
    /\ index' = [index EXCEPT ![t] = enqueue_index]
    /\ pc' = [pc EXCEPT ![t] = "enq_load_ticket"]
    /\ UNCHANGED <<inputs, pingpong, queue, shared, call, item, data, ret, work, ghost>>

\* ------------------------------------------------------------ try_dequeue
\* let mut index = self.dequeue_index.load(Relaxed);
DeqLoadIndex(t) ==
    /\ Runs(t)
    /\ pc[t] = "deq_load_index"
    /\ index' = [index EXCEPT ![t] = dequeue_index]
    /\ pc' = [pc EXCEPT ![t] = "deq_load_ticket"]
    /\ UNCHANGED <<inputs, pingpong, queue, shared, call, item, data, ret, work, ghost>>

\* let ticket = node.ticket.load(Acquire); and the three-way branch on it.
\* `ticket < index + 1` returns None: try_dequeue reports it to its caller;
\* inside dequeue the loop (`None => {}`) calls try_dequeue again.
DeqLoadTicket(t) ==
    /\ Runs(t)
    /\ pc[t] = "deq_load_ticket"
    /\ LET ticket == nodes[NodeOf(index[t], mask)].ticket IN
       IF DeqTicketReady(ticket, index[t])
       THEN Goto(t, "deq_cas")
       ELSE IF DeqTicketEmpty(ticket, index[t])
       THEN IF call[t].op = "try_dequeue"
            THEN Return(t, <<"None">>)
            ELSE Again(t, "deq_load_index")
       ELSE Goto(t, "deq_reload")
    /\ UNCHANGED <<inputs, pingpong, queue, shared, item, data, work, claimed, taken>>

\* if index == self.dequeue_index.compare_and_swap(index, index + 1, Relaxed)
DeqCas(t) ==
    /\ Runs(t)
    /\ pc[t] = "deq_cas"
    /\ IF CasWins(dequeue_index, index[t])
       THEN /\ dequeue_index' = index[t] + 1
            /\ Goto(t, "deq_take")
       ELSE /\ Goto(t, "deq_load_ticket")
            /\ UNCHANGED dequeue_index
    /\ UNCHANGED <<inputs, pingpong, queue, nodes, mask, enqueue_index, item, data, work,
                   claimed, taken>>

\* let data = unsafe { (*node.data.get()).take() };
DeqTake(t) ==
    /\ Runs(t)
    /\ pc[t] = "deq_take"
    /\ data' = [data EXCEPT ![t] = nodes[NodeOf(index[t], mask)].data]
    /\ nodes' = [nodes EXCEPT ![NodeOf(index[t], mask)].data = None]
    /\ taken' = taken \cup {<<index[t], nodes[NodeOf(index[t], mask)].data>>}
    /\ Goto(t, "deq_store")
    /\ UNCHANGED <<inputs, pingpong, queue, mask, enqueue_index, dequeue_index, item, work,
                   claimed>>

\* node.ticket.store(index + self.mask + 1, Release); return data;
\* try_dequeue returns `data` whatever it is; dequeue returns on Some(value)
\* and loops on None.
DeqStore(t) ==
    /\ Runs(t)
    /\ pc[t] = "deq_store"
    /\ nodes' = [nodes EXCEPT ![NodeOf(index[t], mask)].ticket = FreedTicket(index[t], mask)]
    /\ data' = [data EXCEPT ![t] = None]
    /\ IF data[t] # None
       THEN /\ Return(t, <<"Some">> \o data[t])
            /\ got' = [got EXCEPT ![t] = got[t] \o data[t]]
            /\ quota' = [quota EXCEPT ![t] = quota[t] - 1]
       ELSE IF call[t].op = "try_dequeue"
       THEN /\ Return(t, <<"None">>)
            /\ UNCHANGED <<got, quota>>
       ELSE /\ Again(t, "deq_load_index")
            /\ UNCHANGED <<got, quota>>
    /\ UNCHANGED <<inputs, pingpong, queue, mask, enqueue_index, dequeue_index, item, todo,
                   claimed, taken>>

\* else { index = self.dequeue_index.load(Relaxed); }
DeqReload(t) ==
    /\ Runs(t)
    /\ pc[t] = "deq_reload"
    /\ index' = [index EXCEPT ![t] = dequeue_index]
    /\ pc' = [pc EXCEPT ![t] = "deq_load_ticket"]
    /\ UNCHANGED <<inputs, pingpong, queue, shared, call, item, data, ret, work, ghost>>

\* ---------------------------------------------------------- specifications
\* One step of thread t.
Thread(t) ==
    \/ CallTryEnqueue(t)
    \/ CallEnqueue(t)
    \/ CallTryDequeue(t)
    \/ CallDequeue(t)
    \/ EnqLoadIndex(t)
    \/ EnqLoadTicket(t)
    \/ EnqCas(t)
    \/ EnqWrite(t)
    \/ EnqStore(t)
    \/ EnqReload(t)
    \/ DeqLoadIndex(t)
    \/ DeqLoadTicket(t)
    \/ DeqCas(t)
    \/ DeqTake(t)
    \/ DeqStore(t)
    \/ DeqReload(t)

Next == New \/ \E t \in Threads : Thread(t)

Spec == Init /\ [][Next]_vars

\* The scheduler pauses every thread but t, which is inside a try_enqueue or
\* try_dequeue call, and from now on runs t alone.
RunAlone(t) ==
    /\ queue = "live"
    /\ alone = 0
    /\ pc[t] # "idle"
    /\ call[t].op \in {"try_enqueue", "try_dequeue"}
    /\ alone' = t
    /\ aloneSteps' = 0
    /\ UNCHANGED <<inputs, pingpong, queue, shared, locals, work, ghost>>

InitAlone == InitCommon /\ InitStress(AloneMessages)

NextAlone == Next \/ \E t \in Threads : RunAlone(t)

SpecAlone == InitAlone /\ [][NextAlone]_vars

\* tests::multiple_threads as written: its threads call only enqueue and
\* dequeue.  One step of such a thread.
BlockingThread(t) ==
    \/ CallEnqueue(t)
    \/ CallDequeue(t)
    \/ EnqLoadIndex(t)
    \/ EnqLoadTicket(t)
    \/ EnqCas(t)
    \/ EnqWrite(t)
    \/ EnqStore(t)
    \/ EnqReload(t)
    \/ DeqLoadIndex(t)
    \/ DeqLoadTicket(t)
    \/ DeqCas(t)
    \/ DeqTake(t)
    \/ DeqStore(t)
    \/ DeqReload(t)

InitLive == InitCommon /\ InitStress(LiveMessages)

NextLive == New \/ \E t \in Threads : BlockingThread(t)

\* The harness under a fair scheduler: Queue::new completes, and a thread
\* that can take a step eventually takes one.
SpecLive ==
    /\ InitLive
    /\ [][NextLive]_vars
    /\ WF_vars(New)
    /\ \A t \in Threads : WF_vars(BlockingThread(t))

\* ------------------------------------------------------- tests::ping_pong
\* A queue as a value: what Queue::new(bound) returns.
QueueNew(b) ==
    [nodes |-> NewNodes(b), mask |-> NewMask(b),
     enqueue_index |-> 0, dequeue_index |-> 0]

\* The locals of a thread of ping_pong: where it is, its loop counter `i`,
\* and the locals of the queue call it is in.
PingLocals(at) == [pc |-> at, i |-> 0, index |-> 0, item |-> None, data |-> None]

\* One step of the call q.enqueue(l.item) made by a thread with locals l:
\* the queue and the locals after it.  pc "returned" is the return of
\* enqueue to its caller.
EnqueueStep(q, l) ==
    LET n == NodeOf(l.index, q.mask)
        ticket == q.nodes[n].ticket
    IN  CASE l.pc = "enq_load_index" ->
               [q |-> q,
                l |-> [l EXCEPT !.index = q.enqueue_index, !.pc = "enq_load_ticket"]]
          [] l.pc = "enq_load_ticket" ->
               [q |-> q,
                l |-> IF EnqTicketFree(ticket, l.index)
                      THEN [l EXCEPT !.pc = "enq_cas"]
                      ELSE IF EnqTicketFull(ticket, l.index)
                      THEN [l EXCEPT !.pc = "enq_load_index", !.index = 0]
                      ELSE [l EXCEPT !.pc = "enq_reload"]]
          [] l.pc = "enq_cas" ->
               IF CasWins(q.enqueue_index, l.index)
               THEN [q |-> [q EXCEPT !.enqueue_index = l.index + 1],
                     l |-> [l EXCEPT !.pc = "enq_write"]]
               ELSE [q |-> q, l |-> [l EXCEPT !.pc = "enq_load_ticket"]]
          [] l.pc = "enq_write" ->
               [q |-> [q EXCEPT !.nodes[n].data = l.item],
                l |-> [l EXCEPT !.item = None, !.pc = "enq_store"]]
          [] l.pc = "enq_store" ->
               [q |-> [q EXCEPT !.nodes[n].ticket = PublishedTicket(l.index)],
                l |-> [l EXCEPT !.index = 0, !.pc = "returned"]]
          [] l.pc = "enq_reload" ->
               [q |-> q,
                l |-> [l EXCEPT !.index = q.enqueue_index, !.pc = "enq_load_ticket"]]

\* One step of the call q.dequeue() made by a thread with locals l.  At pc
\* "returned" the value dequeue returns is in l.data.
DequeueStep(q, l) ==
    LET n == NodeOf(l.index, q.mask)
        ticket == q.nodes[n].ticket
    IN  CASE l.pc = "deq_load_index" ->
               [q |-> q,
                l |-> [l EXCEPT !.index = q.dequeue_index, !.pc = "deq_load_ticket"]]
          [] l.pc = "deq_load_ticket" ->
               [q |-> q,
                l |-> IF DeqTicketReady(ticket, l.index)
                      THEN [l EXCEPT !.pc = "deq_cas"]
                      ELSE IF DeqTicketEmpty(ticket, l.index)
                      THEN [l EXCEPT !.pc = "deq_load_index", !.index = 0]
                      ELSE [l EXCEPT !.pc = "deq_reload"]]
          [] l.pc = "deq_cas" ->
               IF CasWins(q.dequeue_index, l.index)
               THEN [q |-> [q EXCEPT !.dequeue_index = l.index + 1],
                     l |-> [l EXCEPT !.pc = "deq_take"]]
               ELSE [q |-> q, l |-> [l EXCEPT !.pc = "deq_load_ticket"]]
          [] l.pc = "deq_take" ->
               [q |-> [q EXCEPT !.nodes[n].data = None],
                l |-> [l EXCEPT !.data = q.nodes[n].data, !.pc = "deq_store"]]
          [] l.pc = "deq_store" ->
               [q |-> [q EXCEPT !.nodes[n].ticket = FreedTicket(l.index, q.mask)],
                l |-> IF l.data # None
                      THEN [l EXCEPT !.index = 0, !.pc = "returned"]
                      ELSE [l EXCEPT !.index = 0, !.pc = "deq_load_index"]]
          [] l.pc = "deq_reload" ->
               [q |-> q,
                l |-> [l EXCEPT !.index = q.dequeue_index, !.pc = "deq_load_ticket"]]

EnqueuePcs ==
    {"enq_load_index", "enq_load_ticket", "enq_cas", "enq_write", "enq_store",
     "enq_reload"}

DequeuePcs ==
    {"deq_load_index", "deq_load_ticket", "deq_cas", "deq_take", "deq_store",
     "deq_reload"}

\* The state of every variable ping_pong does not use.
PingPongFrame == UNCHANGED <<inputs, queue, shared, locals, work, ghost, sched>>

\* ping_pong up to thread::spawn: both queues are built with the same bound
\* and the relay thread starts.
InitPingPong ==
    /\ InitCommon
    /\ ~NewPanics(bound)
    /\ harness = "pingpong"
    /\ messages = PingMessages
    /\ split = <<PingMessages, PingMessages>>
    /\ todo = [t \in Threads |-> <<>>]
    /\ quota = [t \in Threads |-> 0]
    /\ pingpong = [ping |-> QueueNew(bound), pong |-> QueueNew(bound),
                   main |-> PingLocals("for"), relay |-> PingLocals("for")]

\* Main thread, `for i in 0..MESSAGE_COUNT`: the next iteration calls
\* ping_producer.enqueue(i); after the last one the loop ends.
MainFor ==
    /\ pingpong.main.pc = "for"
    /\ LET l == pingpong.main IN
       pingpong' =
          [pingpong EXCEPT !.main =
              IF l.i < messages
              THEN [l EXCEPT !.item = Some(l.i), !.pc = "enq_load_index"]
              ELSE [l EXCEPT !.pc = "done"]]
    /\ PingPongFrame

\* Main thread: a step of ping_producer.enqueue(i); on its return the thread
\* calls pong_consumer.dequeue().
MainEnqueue ==
    /\ pingpong.main.pc \in EnqueuePcs
    /\ LET s == EnqueueStep(pingpong.ping, pingpong.main) IN
       pingpong' =
          [pingpong EXCEPT
              !.ping = s.q,
              !.main = IF s.l.pc = "returned"
                       THEN [s.l EXCEPT !.pc = "deq_load_index"]
                       ELSE s.l]
    /\ PingPongFrame

\* Main thread: a step of `let j = pong_consumer.dequeue();`.
MainDequeue ==
    /\ pingpong.main.pc \in DequeuePcs
    /\ LET s == DequeueStep(pingpong.pong, pingpong.main) IN
       pingpong' =
          [pingpong EXCEPT
              !.pong = s.q,
              !.main = IF s.l.pc = "returned"
                       THEN [s.l EXCEPT !.pc = "assert"]
                       ELSE s.l]
    /\ PingPongFrame

\* Main thread: assert!(i == j); and the loop's increment.  A failed
\* assertion panics the thread.
MainAssert ==
    /\ pingpong.main.pc = "assert"
    /\ LET l == pingpong.main IN
       pingpong' =
          [pingpong EXCEPT !.main =
              IF l.data = Some(l.i)
              THEN [l EXCEPT !.i = l.i + 1, !.data = None, !.pc = "for"]
              ELSE [l EXCEPT !.pc = "panicked"]]
    /\ PingPongFrame

\* Relay thread, `for i in 0..MESSAGE_COUNT`: the next iteration calls
\* ping_consumer.dequeue().
RelayFor ==
    /\ pingpong.relay.pc = "for"
    /\ LET l == pingpong.relay IN
       pingpong' =
          [pingpong EXCEPT !.relay =
              IF l.i < messages
              THEN [l EXCEPT !.pc = "deq_load_index"]
              ELSE [l EXCEPT !.pc = "done"]]
    /\ PingPongFrame

\* Relay thread: a step of `let j = ping_consumer.dequeue();`.
RelayDequeue ==
    /\ pingpong.relay.pc \in DequeuePcs
    /\ LET s == DequeueStep(pingpong.ping, pingpong.relay) IN
       pingpong' =
          [pingpong EXCEPT
              !.ping = s.q,
              !.relay = IF s.l.pc = "returned"
                        THEN [s.l EXCEPT !.pc = "assert"]
                        ELSE s.l]
    /\ PingPongFrame

\* Relay thread: `if j == u64::MAX { break; }` (the values 0..N-1 sent here
\* are never u64::MAX), assert!(i == j); and the call pong_producer.enqueue(j).
RelayAssert ==
    /\ pingpong.relay.pc = "assert"
    /\ LET l == pingpong.relay IN
       pingpong' =
          [pingpong EXCEPT !.relay =
              IF l.data = Some(l.i)
              THEN [l EXCEPT !.item = l.data, !.data = None, !.pc = "enq_load_index"]
              ELSE [l EXCEPT !.pc = "panicked"]]
    /\ PingPongFrame

\* Relay thread: a step of pong_producer.enqueue(j); on its return the loop
\* increments i.
RelayEnqueue ==
    /\ pingpong.relay.pc \in EnqueuePcs
    /\ LET s == EnqueueStep(pingpong.pong, pingpong.relay) IN
       pingpong' =
          [pingpong EXCEPT
              !.pong = s.q,
              !.relay = IF s.l.pc = "returned"
                        THEN [s.l EXCEPT !.i = s.l.i + 1, !.pc = "for"]
                        ELSE s.l]
    /\ PingPongFrame

Main == MainFor \/ MainEnqueue \/ MainDequeue \/ MainAssert

Relay == RelayFor \/ RelayDequeue \/ RelayAssert \/ RelayEnqueue

NextPingPong == Main \/ Relay

\* ping_pong with both threads scheduled fairly.
SpecPingPong ==
    /\ InitPingPong
    /\ [][NextPingPong]_vars
    /\ WF_vars(Main)
    /\ WF_vars(Relay)

\* ------------------------------------------------------------- vocabulary
Values == 1..messages

\* The capacity C of the constructed queue.
Capacity == mask + 1

\* Every call has returned and no thread has calls left to make.
AllReturned ==
    /\ queue = "live"
    /\ \A t \in Threads : pc[t] = "idle" /\ todo[t] = <<>> /\ quota[t] = 0

\* How often v occurs in the sequence s.
Occurrences(s, v) == Cardinality({i \in DOMAIN s : s[i] = v})

RECURSIVE Sum(_, _)
\* The sum of f over the finite set S.
Sum(f, S) ==
    IF S = {} THEN 0
    ELSE LET x == CHOOSE y \in S : TRUE IN f[x] + Sum(f, S \ {x})

\* In how many places value v is: a producer's hand (not yet passed to a
\* call, or handed back), an enqueue call's `item`, a node's data cell, a
\* dequeue call's `data`, the values a consumer received.
Places(v) ==
    Sum([t \in Threads |-> Occurrences(todo[t], v)], Threads)
    + Cardinality({t \in Threads : item[t] = Some(v)})
    + Cardinality({n \in DOMAIN nodes : nodes[n].data = Some(v)})
    + Cardinality({t \in Threads : data[t] = Some(v)})
    + Sum([t \in Threads |-> Occurrences(got[t], v)], Threads)

\* How often the dequeue calls returned v.
Returned(v) == Sum([t \in Threads |-> Occurrences(got[t], v)], Threads)

\* Thread t is between winning a CAS for node n and storing n's ticket.
HoldsPayload(t, n) ==
    /\ pc[t] \in {"enq_write", "enq_store", "deq_take", "deq_store"}
    /\ NodeOf(index[t], mask) = n

\* ------------------------------------------------------------------ claims
\* C1 -- no loss, no duplication: in every state each enqueued value is in
\* exactly one place (a producer's hand, one node's data cell, a consumer's
\* hand), and once every call has returned the dequeue calls have returned
\* each enqueued value exactly once and nothing else.
C1_NoLossNoDuplication ==
    /\ \A v \in Values : Places(v) = 1
    /\ AllReturned =>
          /\ \A v \in Values : Returned(v) = 1
          /\ Sum([t \in Threads |-> Len(got[t])], Threads) = messages

\* C1 witness: two producers and two consumers have moved more values than
\* the queue has nodes, and every call has returned.
C1_Witness ==
    /\ AllReturned
    /\ harness = "stress"
    /\ split[1] < messages
    /\ got[THREAD_COUNT + 1] # <<>>
    /\ got[THREAD_COUNT + 2] # <<>>
    /\ messages > Capacity

\* C2 -- global FIFO order: the payload taken by the dequeue that won
\* position p is the value of the enqueue that won position p, only one
\* enqueue wins a position, and when one producer enqueues 1, 2, ... in that
\* call order the dequeue that won position k takes value k + 1.
C2_GlobalFifo ==
    /\ \A c1 \in claimed, c2 \in claimed : c1[1] = c2[1] => c1 = c2
    /\ \A tk \in taken : \E c \in claimed : c[1] = tk[1] /\ tk[2] = c[2]
    /\ \A t \in Threads : pc[t] = "deq_store" =>
          \E c \in claimed : c[1] = index[t] /\ data[t] = c[2]
    /\ split[1] = messages => \A tk \in taken : tk[2] = Some(tk[1] + 1)

\* C2 witness: values of two producers, claimed in an order other than
\* their numbering, have all been taken by two consumers.
C2_Witness ==
    /\ harness = "stress"
    /\ Cardinality(taken) = messages
    /\ \E c \in claimed : c[2] # Some(c[1] + 1)
    /\ got[THREAD_COUNT + 1] # <<>>
    /\ got[THREAD_COUNT + 2] # <<>>

\* C3 -- exclusive payload access: for every node, at most one thread is
\* between winning a cursor CAS for that node and storing its ticket.
C3_ExclusivePayloadAccess ==
    \A n \in DOMAIN nodes : Cardinality({t \in Threads : HoldsPayload(t, n)}) <= 1

\* C3 witness: a producer is about to write a node's payload while another
\* producer, holding the same index, is about to try the CAS it has lost.
C3_Witness ==
    \E t \in Threads, u \in Threads :
        /\ pc[t] = "enq_write"
        /\ pc[u] = "enq_cas"
        /\ index[u] = index[t]

\* C4 -- cursor bound: 0 <= enqueue_index - dequeue_index <= C.
C4_CursorBound ==
    queue = "live" =>
        /\ 0 <= enqueue_index - dequeue_index
        /\ enqueue_index - dequeue_index <= Capacity

\* C4 witness: under contention the enqueue cursor is a full C ahead of a
\* dequeue cursor that has already moved.
C4_Witness ==
    /\ queue = "live"
    /\ harness = "stress"
    /\ dequeue_index > 0
    /\ enqueue_index - dequeue_index = Capacity

\* Calls that have returned Accepted: every value that is neither in a
\* producer's hand nor inside an enqueue call still running.
AcceptedCount ==
    messages
    - Sum([t \in Threads |-> Len(todo[t])], Threads)
    - Cardinality({t \in Threads :
                     pc[t] \in {"enq_load_index", "enq_load_ticket", "enq_cas",
                                "enq_write", "enq_store", "enq_reload"}})

\* This step, thread t's try_enqueue (called directly or by enqueue) returns
\* Some(item), i.e. Rejected.
RejectsNow(t) ==
    /\ pc[t] = "enq_load_ticket"
    /\ pc'[t] \in {"idle", "enq_load_index"}

\* This step, thread t's public call `op` returns to its caller.
ReturnsNow(t, op) ==
    /\ call[t].op = op
    /\ pc[t] # "idle"
    /\ pc'[t] = "idle"

\* C5 -- bounded capacity: while no dequeue has won a position, a
\* try_enqueue that returns after C calls were Accepted returns Rejected
\* with the very value it was given, which is back in the caller's hand;
\* and no try_enqueue (direct or inside enqueue) is rejected before C
\* positions are claimed -- single-threaded: before C calls were Accepted.
C5_BoundedCapacity ==
    [][\A t \in Threads :
          dequeue_index = 0 =>
             /\ ReturnsNow(t, "try_enqueue") /\ AcceptedCount = Capacity =>
                   /\ ret'[t] = <<"Rejected">> \o call[t].arg
                   /\ Head(todo'[t]) = call[t].arg[1]
                   /\ item'[t] = None
             /\ RejectsNow(t) =>
                   /\ enqueue_index = Capacity
                   /\ harness = "solo" => AcceptedCount = Capacity
                   /\ item[t] = call[t].arg
    ]_vars

\* C5 witness: single-threaded, on a queue larger than the smallest, C
\* calls were Accepted, nothing was dequeued, and the try_enqueue after them
\* has returned Rejected.
C5_Witness ==
    /\ harness = "solo"
    /\ Capacity > 2
    /\ dequeue_index = 0
    /\ AcceptedCount = Capacity
    /\ pc[1] = "idle"
    /\ hist # <<>>
    /\ hist[1].op = "try_enqueue"
    /\ hist[1].ret = <<"Rejected">> \o hist[1].arg

\* C6 -- round trip, single-threaded: enqueue(x) on a queue with no stored
\* values followed immediately by dequeue() returns Some(x) and leaves the
\* queue with no stored values; a try_dequeue on a queue with no stored
\* values returns None and leaves it so; in particular a try_dequeue right
\* after the round trip returns None.
C6_RoundTrip ==
    harness = "solo" =>
        /\ (/\ Len(hist) >= 2
            /\ hist[2].op = "enqueue" /\ hist[2].len0 = 0
            /\ hist[1].op = "dequeue")
           => /\ hist[1].ret = <<"Some">> \o hist[2].arg
              /\ pc[1] = "idle" => enqueue_index = dequeue_index
        /\ (/\ Len(hist) >= 1
            /\ hist[1].op = "try_dequeue" /\ hist[1].len0 = 0)
           => /\ hist[1].ret = <<"None">>
              /\ pc[1] = "idle" => enqueue_index = dequeue_index
        /\ (/\ Len(hist) >= 3
            /\ hist[3].op = "enqueue" /\ hist[3].len0 = 0
            /\ hist[2].op = "dequeue"
            /\ hist[1].op = "try_dequeue")
           => /\ hist[2].ret = <<"Some">> \o hist[3].arg
              /\ hist[1].ret = <<"None">>

\* C6 witness: enqueue(x), dequeue() = x, try_dequeue() = None, with the
\* cursors on their second lap of the ring or later when enqueue(x) began.
C6_Witness ==
    /\ harness = "solo"
    /\ pc[1] = "idle"
    /\ Len(hist) >= 3
    /\ hist[3].op = "enqueue" /\ hist[3].len0 = 0
    /\ hist[2].op = "dequeue" /\ hist[2].ret = <<"Some">> \o hist[3].arg
    /\ hist[1].op = "try_dequeue" /\ hist[1].ret = <<"None">>
    /\ dequeue_index > Capacity + 1

\* The queue is as Queue::new left it.
Fresh ==
    /\ queue = "live"
    /\ enqueue_index = 0
    /\ dequeue_index = 0
    /\ DOMAIN nodes = 0..(bound - 1)
    /\ \A i \in DOMAIN nodes : nodes[i].ticket = i /\ nodes[i].data = None

\* C7 -- empty behaviour: no step of a try_dequeue call on a freshly
\* constructed queue changes a cursor, a ticket or a payload, and the call
\* returns None.
C7_EmptyBehaviour ==
    [][\A t \in Threads :
          Fresh /\ call[t].op = "try_dequeue" /\ pc'[t] # pc[t] =>
             /\ Fresh'
             /\ pc'[t] = "idle" => ret'[t] = <<"None">>
    ]_vars

\* C7 witness: the first call ever made on a queue was a try_dequeue; it
\* has returned None and the queue is still fresh.
C7_Witness ==
    /\ harness = "solo"
    /\ Fresh
    /\ pc[1] = "idle"
    /\ Len(hist) = 1
    /\ hist[1].op = "try_dequeue"
    /\ hist[1].ret = <<"None">>

\* n is a power of two.
IsPowerOfTwo(n) == \E k \in 0..n : 2 ^ k = n

\* No call has been made on the queue yet.
NoCallYet == \A t \in Threads : pc[t] = "idle" /\ ret[t] = <<"NoReturn">>

C9_TryReturnsAlone ==
    alone # 0 => aloneSteps <= SoloBound

\* C10 -- blocking wrappers eventually succeed: with producers making N
\* enqueue calls and consumers N dequeue calls in total, under weak fairness
\* on every thread, every call eventually returns; enqueue returns only
\* once its value was Accepted and dequeue only with a value.
C10_BlockingCallsReturn ==
    /\ [][\A t \in Threads :
             /\ ReturnsNow(t, "enqueue") => ret'[t] = <<"Accepted">> /\ item[t] = None
             /\ ReturnsNow(t, "dequeue") => ret'[t] = <<"Some">> \o data[t] /\ data[t] # None
       ]_vars
    /\ <>(queue = "panicked" \/ AllReturned)

\* C10 witness: more messages than the queue has nodes went from two
\* producers to two consumers and every thread's last call succeeded.
C10_Witness ==
    /\ AllReturned
    /\ messages > Capacity
    /\ split[1] < messages /\ split[2] < messages
    /\ enqueue_index = messages /\ dequeue_index = messages
    /\ \A t \in Producers : ret[t] = <<"Accepted">>
    /\ \A t \in Consumers : ret[t][1] = "Some"

\* C11 -- ping-pong: in every interleaving the value the relay thread
\* dequeues from ping in its iteration i is i, the value the main thread
\* dequeues from pong is the i it has just enqueued into ping, no assertion
\* fails, and under weak fairness both threads complete all N iterations.
C11_PingPong ==
    /\ [](/\ pingpong.relay.pc = "assert" => pingpong.relay.data = Some(pingpong.relay.i)
          /\ pingpong.main.pc = "assert" => pingpong.main.data = Some(pingpong.main.i)
          /\ pingpong.main.pc # "panicked"
          /\ pingpong.relay.pc # "panicked")
    /\ <>(/\ pingpong.main.pc = "done" /\ pingpong.main.i = messages
          /\ pingpong.relay.pc = "done" /\ pingpong.relay.i = messages)

\* C11 witness: both threads have completed N iterations, more than the
\* queues have nodes, so both rings were reused.
C11_Witness ==
    /\ harness = "pingpong"
    /\ pingpong.main.pc = "done" /\ pingpong.main.i = messages
    /\ pingpong.relay.pc = "done" /\ pingpong.relay.i = messages
    /\ pingpong.ping.dequeue_index = messages
    /\ pingpong.pong.dequeue_index = messages
    /\ messages > pingpong.ping.mask + 1

\* Some consumer is between winning a dequeue position and storing the
\* ticket that frees its node.
DequeueInProgress == \E u \in Threads : pc[u] \in {"deq_take", "deq_store"}

\* Some producer is between winning an enqueue position and storing the
\* ticket that publishes it.
EnqueueInProgress == \E u \in Threads : pc[u] \in {"enq_write", "enq_store"}

\* C12 as stated -- Rejected means full: at the instant a try_enqueue that
\* returns Rejected read the node's ticket,
\* enqueue_index - dequeue_index = C.
C12_RejectedMeansFull ==
    [][\A t \in Threads :
          RejectsNow(t) => enqueue_index - dequeue_index = Capacity
    ]_vars

\* C12 as amended -- Rejected means the node is still held: at the instant a
\* try_enqueue that returns Rejected read the node's ticket, its index is
\* the current enqueue_index, and the node of that position still belongs
\* to position enqueue_index - C, which a producer has claimed and whose
\* consumer has not yet stored the ticket that frees it.  Then
\* enqueue_index - dequeue_index <= C, with equality whenever no consumer is
\* between winning a position and storing its ticket.
C12_RejectedMeansNodeHeld ==
    [][\A t \in Threads :
          RejectsNow(t) =>
             /\ index[t] = enqueue_index
             /\ index[t] >= Capacity
             /\ nodes[NodeOf(index[t], mask)].ticket
                   \in {index[t] - Capacity, index[t] - Capacity + 1}
             /\ enqueue_index - dequeue_index <= Capacity
             /\ ~DequeueInProgress => enqueue_index - dequeue_index = Capacity
    ]_vars

\* C12 witness: a try_enqueue has returned Rejected while a consumer that
\* has claimed position enqueue_index - C has not yet freed its node, so
\* that fewer than C positions lie between the cursors.
C12_Witness ==
    \E t \in Producers, u \in Consumers :
        /\ pc[t] = "idle"
        /\ ret[t][1] = "Rejected"
        /\ pc[u] \in {"deq_take", "deq_store"}
        /\ index[u] + Capacity = enqueue_index
        /\ enqueue_index - dequeue_index < Capacity

\* This step, thread t's try_dequeue (called directly or by dequeue) reads
\* the ticket and returns None.
NoneNow(t) ==
    /\ pc[t] = "deq_load_ticket"
    /\ pc'[t] \in {"idle", "deq_load_index"}

\* The positions whose enqueue call has returned Accepted and which no
\* consumer has claimed.
AcceptedUnclaimed ==
    {p \in dequeue_index..(enqueue_index - 1) : nodes[NodeOf(p, mask)].ticket = p + 1}

\* C13 as stated -- None means empty: at the instant a try_dequeue that
\* returns None read the node's ticket, there is no value whose enqueue call
\* has returned Accepted and which no consumer has claimed.
C13_NoneMeansEmpty ==
    [][\A t \in Threads : NoneNow(t) => AcceptedUnclaimed = {}]_vars

\* C13 as amended -- None means the head is not published: at the instant a
\* try_dequeue that returns None read the node's ticket, its index is the
\* current dequeue_index and the ticket that publishes that position has
\* not been stored: the node is free for that position, or still carries
\* the ticket of position dequeue_index - C, which its consumer has not yet
\* freed (values at later positions may already have been Accepted).
\* Whenever no producer is between winning a position and storing its
\* ticket, the queue then holds no value.
C13_NoneMeansHeadUnpublished ==
    [][\A t \in Threads :
          NoneNow(t) =>
             /\ index[t] = dequeue_index
             /\ nodes[NodeOf(index[t], mask)].ticket
                   \in {index[t], index[t] - Capacity + 1}
             /\ dequeue_index \notin AcceptedUnclaimed
             /\ ~EnqueueInProgress =>
                   /\ enqueue_index = dequeue_index
                   /\ AcceptedUnclaimed = {}
    ]_vars

\* C13 witness: a try_dequeue has returned None while the producer that
\* claimed position dequeue_index has not yet published it and a value at a
\* later position has been Accepted.
C13_Witness ==
    \E t \in Consumers, u \in Producers :
        /\ pc[t] = "idle"
        /\ ret[t] = <<"None">>
        /\ pc[u] \in {"enq_write", "enq_store"}
        /\ index[u] = dequeue_index
        /\ AcceptedUnclaimed # {}

\* The statements between a won CAS and the return of the call.
AfterClaim == {"enq_write", "enq_store", "deq_take", "deq_store"}

\* This step is a step of thread t.
StepOf(t) == pc'[t] # pc[t]

\* This step, thread t's public call returns with an outcome of kind k.
ReturnsKind(t, k) == pc[t] # "idle" /\ pc'[t] = "idle" /\ ret'[t][1] = k

\* C14 -- failed attempts change nothing: a thread's step assigns to a
\* cursor, a ticket or a payload only by winning a CAS or after having won
\* one, and a call that has won a CAS returns Accepted or a value; so a
\* call that returns Rejected or None has written nothing.  The step that
\* returns Rejected leaves the shared state as it is and hands back the very
\* value the call was given; the step that returns None leaves the shared
\* state as it is, and None is returned by no other step.
C14_FailedAttemptsChangeNothing ==
    [][\A t \in Threads :
          /\ StepOf(t) /\ shared' # shared =>
                \/ pc'[t] \in AfterClaim
                \/ ReturnsKind(t, "Accepted")
                \/ ReturnsKind(t, "Some")
          /\ StepOf(t) /\ pc[t] \in AfterClaim =>
                \/ pc'[t] \in AfterClaim
                \/ ReturnsKind(t, "Accepted")
                \/ ReturnsKind(t, "Some")
          /\ RejectsNow(t) =>
                /\ shared' = shared
                /\ item[t] = call[t].arg
                /\ call[t].op = "enqueue" => item'[t] = call[t].arg
                /\ call[t].op = "try_enqueue" =>
                      /\ ret'[t] = <<"Rejected">> \o call[t].arg
                      /\ todo'[t] = call[t].arg \o todo[t]
          /\ ReturnsKind(t, "Rejected") => RejectsNow(t)
          /\ NoneNow(t) => shared' = shared
          /\ ReturnsKind(t, "None") => NoneNow(t)
    ]_vars

\* C14 witness: under contention a try_enqueue has returned Rejected and a
\* try_dequeue has returned None, after other calls moved both cursors.
C14_Witness ==
    \E t \in Producers, u \in Consumers :
        /\ harness = "stress"
        /\ pc[t] = "idle" /\ ret[t][1] = "Rejected"
        /\ pc[u] = "idle" /\ ret[u] = <<"None">>
        /\ dequeue_index > 0

\* C15 -- slot state machine: node s starts with ticket s; a ticket changes
\* only from p to p + 1, with p mod C = s, stored by the producer that
\* claimed position p, or from p + 1 to p + C, stored by the consumer that
\* claimed position p; so every ticket is congruent to s or s + 1 modulo C
\* and never decreases.
C15_SlotStateMachine ==
    /\ [](queue = "live" =>
             \A s \in DOMAIN nodes :
                nodes[s].ticket % Capacity \in {s, (s + 1) % Capacity})
    /\ [][queue = "unborn" /\ queue' = "live" =>
             \A s \in DOMAIN nodes' : nodes'[s].ticket = s]_vars
    /\ [][queue = "live" =>
             \A s \in DOMAIN nodes :
                LET old == nodes[s].ticket
                    new == nodes'[s].ticket
                IN  new # old =>
                       \/ /\ old % Capacity = s
                          /\ new = old + 1
                          /\ \E t \in Threads :
                                StepOf(t) /\ pc[t] = "enq_store" /\ index[t] = old
                       \/ /\ old % Capacity = (s + 1) % Capacity
                          /\ new = (old - 1) + Capacity
                          /\ new > old
                          /\ \E t \in Threads :
                                StepOf(t) /\ pc[t] = "deq_store" /\ index[t] = old - 1
       ]_vars

\* C15 witness: under contention a node has gone round the cycle once and
\* was published again, while another node is free for its second round.
C15_Witness ==
    /\ harness = "stress"
    /\ \E s \in DOMAIN nodes, r \in DOMAIN nodes :
          /\ nodes[s].ticket = s + Capacity + 1
          /\ nodes[r].ticket = r + Capacity

\* The payload of node n is the value whose enqueue won position p.
HoldsValueOf(n, p) == \E c \in claimed : c[1] = p /\ c[2] # None /\ n.data = c[2]

\* The positions a node can currently stand for: those already claimed and
\* the next C.
Window == 0..(enqueue_index + Capacity - 1)

\* Some thread is between winning a cursor CAS for node s and storing the
\* ticket of s.
Held(s) == \E t \in Threads : HoldsPayload(t, s)

\* C16 as stated -- sequence/payload correspondence: in every state and for
\* every position p (of those a node can currently stand for), node p mod C
\* has ticket p + 1 exactly when its payload holds the value enqueued at p
\* and dequeue_index <= p, and has ticket p exactly when its payload is
\* empty and enqueue_index <= p.
C16_SequencePayload ==
    queue = "live" =>
        \A p \in Window :
            LET n == nodes[NodeOf(p, mask)] IN
            /\ n.ticket = p + 1 <=> (HoldsValueOf(n, p) /\ dequeue_index <= p)
            /\ n.ticket = p <=> (n.data = None /\ enqueue_index <= p)

\* C16 as amended -- the correspondence holds for every node that no thread
\* holds between winning a cursor CAS for it and storing its ticket.  While
\* the producer that claimed p holds the node, the ticket is still p with
\* enqueue_index > p, the payload empty before its write and the value
\* after it; while the consumer that claimed p holds the node, the ticket
\* is still p + 1 with dequeue_index > p, the payload the value before its
\* take and empty after it.
C16_SequencePayloadAtRest ==
    queue = "live" =>
        /\ \A p \in Window :
              LET n == nodes[NodeOf(p, mask)] IN
              ~Held(NodeOf(p, mask)) =>
                 /\ n.ticket = p + 1 <=> (HoldsValueOf(n, p) /\ dequeue_index <= p)
                 /\ n.ticket = p <=> (n.data = None /\ enqueue_index <= p)
        /\ \A t \in Threads :
              LET p == index[t]
                  n == nodes[NodeOf(p, mask)]
              IN  /\ pc[t] = "enq_write" =>
                        n.ticket = p /\ n.data = None /\ enqueue_index > p
                  /\ pc[t] = "enq_store" =>
                        n.ticket = p /\ HoldsValueOf(n, p) /\ enqueue_index > p
                  /\ pc[t] = "deq_take" =>
                        n.ticket = p + 1 /\ HoldsValueOf(n, p) /\ dequeue_index > p
                  /\ pc[t] = "deq_store" =>
                        n.ticket = p + 1 /\ n.data = None /\ dequeue_index > p

\* C16 witness: under contention, in the second round of the ring, one node
\* at rest holds a published value while a consumer holds another node
\* whose ticket still says published.
C16_Witness ==
    /\ harness = "stress"
    /\ \E p \in Window, t \in Threads :
          /\ p >= Capacity
          /\ ~Held(NodeOf(p, mask))
          /\ nodes[NodeOf(p, mask)].ticket = p + 1
          /\ pc[t] = "deq_store"
          /\ index[t] < p

\* The ticket that publishes position p has been stored.
Published(p) == nodes[NodeOf(p, mask)].ticket >= p + 1

\* This step, thread t stores the ticket that publishes position index[t].
PublishesNow(t) == StepOf(t) /\ pc[t] = "enq_store"

\* This step, thread t wins the CAS on dequeue_index for position index[t].
WinsDequeueNow(t) == pc[t] = "deq_cas" /\ pc'[t] = "deq_take"

\* C17 as stated -- publication order equals claim order: when the ticket
\* that publishes position q is stored, the ticket that publishes every
\* position p < q has been stored.
C17_PublicationOrder ==
    [][\A t \in Threads :
          PublishesNow(t) => \A p \in 0..(index[t] - 1) : Published(p)
    ]_vars

\* C17 as amended -- publication follows claim order except between
\* producers at work at the same time: when the ticket that publishes
\* position q is stored, every position p < q has been published or is
\* held by another producer that has claimed it and not yet stored its
\* ticket, and then q - p < C.  Consumers are not affected: a position is
\* claimed for dequeue only after its ticket was published, and dequeue
\* positions are claimed in increasing order.
C17_PublicationBeforeDequeue ==
    [][\A t \in Threads :
          /\ PublishesNow(t) =>
                \A p \in 0..(index[t] - 1) :
                   \/ Published(p)
                   \/ /\ index[t] - p < Capacity
                      /\ \E u \in Threads \ {t} :
                            pc[u] \in {"enq_write", "enq_store"} /\ index[u] = p
          /\ WinsDequeueNow(t) =>
                /\ Published(index[t])
                /\ index[t] = dequeue_index
                /\ \A p \in 0..(index[t] - 1) : Published(p)
    ]_vars

\* C17 witness: position 1 is published and taken by no one while the
\* producer that claimed position 0 has not yet stored its ticket.
C17_Witness ==
    /\ queue = "live"
    /\ enqueue_index >= 2
    /\ ~Published(0)
    /\ nodes[NodeOf(1, mask)].ticket = 2
    /\ \E u \in Threads : pc[u] \in {"enq_write", "enq_store"} /\ index[u] = 0

\* This step, thread t loses the CAS on enqueue_index.
LosesEnqueueNow(t) == pc[t] = "enq_cas" /\ StepOf(t) /\ pc'[t] # "enq_write"

\* This step, thread t loses the CAS on dequeue_index.
LosesDequeueNow(t) == pc[t] = "deq_cas" /\ StepOf(t) /\ pc'[t] # "deq_take"

\* C18 -- retry after a lost CAS: a thread that loses the CAS on
\* enqueue_index goes on to re-read enqueue_index into its index before it
\* reads a ticket again, and likewise for dequeue_index.
C18_RereadAfterLostCas ==
    [][\A t \in Threads :
          /\ LosesEnqueueNow(t) =>
                pc'[t] = "enq_reload" \/ index'[t] = enqueue_index'
          /\ LosesDequeueNow(t) =>
                pc'[t] = "deq_reload" \/ index'[t] = dequeue_index'
    ]_vars

\* The positions producers have won, and those consumers have won.
EnqueueWon == {c[1] : c \in claimed}
DequeueWon ==
    {tk[1] : tk \in taken} \cup {index[t] : t \in {u \in Threads : pc[u] = "deq_take"}}

\* C19 -- each position is claimed exactly once: a cursor changes only by
\* the CAS of a thread whose index equals the cursor, and then by exactly 1;
\* no other thread holds that position and it was not won before; the
\* positions won are 0 .. cursor - 1, each by one enqueue and at most one
\* dequeue; neither cursor ever decreases.
C19_ClaimedOnce ==
    /\ [][enqueue_index' # enqueue_index =>
             \E t \in Threads :
                /\ StepOf(t) /\ pc[t] = "enq_cas"
                /\ index[t] = enqueue_index
                /\ enqueue_index' = index[t] + 1
                /\ index[t] \notin EnqueueWon
                /\ \A u \in Threads \ {t} :
                      pc[u] \in {"enq_write", "enq_store"} => index[u] # index[t]
       ]_vars
    /\ [][dequeue_index' # dequeue_index =>
             \E t \in Threads :
                /\ StepOf(t) /\ pc[t] = "deq_cas"
                /\ index[t] = dequeue_index
                /\ dequeue_index' = index[t] + 1
                /\ index[t] \notin DequeueWon
                /\ \A u \in Threads \ {t} :
                      pc[u] \in {"deq_take", "deq_store"} => index[u] # index[t]
       ]_vars
    /\ [](/\ EnqueueWon = 0..(enqueue_index - 1)
          /\ Cardinality(claimed) = enqueue_index
          /\ DequeueWon = 0..(dequeue_index - 1)
          /\ Cardinality(taken)
               + Cardinality({u \in Threads : pc[u] = "deq_take"}) = dequeue_index)

\* C19 witness: a producer and a consumer are each about to try the CAS
\* with an index the cursor has already left behind.
C19_Witness ==
    \E t \in Producers, u \in Consumers :
        /\ pc[t] = "enq_cas" /\ index[t] < enqueue_index
        /\ pc[u] = "deq_cas" /\ index[u] < dequeue_index

\* C20 -- a won dequeue always yields a value: the payload is present when
\* the consumer that won position p takes it, the thread that stores the
\* freeing ticket holds a value and its call returns that value, every
\* position won by a dequeue has yielded one, and None is returned only by
\* the `ticket < index + 1` branch.
C20_WonDequeueYieldsValue ==
    /\ [](\A t \in Threads :
             /\ pc[t] = "deq_take" => nodes[NodeOf(index[t], mask)].data # None
             /\ pc[t] = "deq_store" => data[t] # None)
    /\ [](\A tk \in taken : tk[2] # None)
    /\ [](dequeue_index =
             Sum([t \in Threads |-> Len(got[t])], Threads)
             + Cardinality({t \in Threads : pc[t] \in {"deq_take", "deq_store"}}))
    /\ [][\A t \in Threads :
             /\ StepOf(t) /\ pc[t] = "deq_store" =>
                   /\ ReturnsKind(t, "Some")
                   /\ ret'[t] = <<"Some">> \o data[t]
                   /\ got'[t] = got[t] \o data[t]
             /\ ReturnsKind(t, "None") => pc[t] = "deq_load_ticket"
       ]_vars

\* C20 witness: a consumer that has won a position after the first holds
\* its value and is about to free the node, while the other consumer's
\* try_dequeue has returned None.
C20_Witness ==
    \E t \in Consumers, u \in Consumers :
        /\ harness = "stress"
        /\ pc[t] = "deq_store"
        /\ data[t] # None
        /\ index[t] >= 1
        /\ pc[u] = "idle"
        /\ ret[u] = <<"None">>

====
